---- MODULE Spec2Model ----
(***************************************************************************)
(* Offline-first synchronization of ASHA Connect.                          *)
(*                                                                         *)
(*   OfflineManager  (src/services/offline_manager.py): local SQLite       *)
(*       tables patients / health_assessments / sync_queue, the            *)
(*       prioritized pass sync_data, conflict resolution.                  *)
(*   Database        (src/data/database.py): the central (MongoDB) store   *)
(*       and its result wrappers.                                          *)
(*   SyncService     (src/services/sync_service.py): the sync_data table,  *)
(*       the scheduled / forced pass.                                      *)
(*                                                                         *)
(* A Python dict is a TLA+ function over string keys; a SQLite table is a  *)
(* set of rows; a MongoDB collection is a set of documents.                *)
(***************************************************************************)
EXTENDS Integers, Sequences, FiniteSets, TLC

\* ------------------------------------------------------------------ bounds
\* Last clock tick at which a save or a foreign remote write may happen.
MaxTime == 3
\* datetime.now() ticks per int(time.time()) second.
TicksPerSec == 2
\* The limit sync_data passes to _get_sync_queue_records (50 in the source),
\* scaled down so that a backlog longer than one batch is reachable.
BatchLimit == 2
\* Largest limit the dequeue contract is evaluated at.
MaxLimit == 2
\* A restart is taken only while no queue row was attempted more often.
MaxRetry == 1
\* Largest instant of the timestamps handed to the conflict resolver.
MaxTs == 2
\* max_offline_days of SyncService and of OfflineManager (MAX_OFFLINE_DAYS,
\* 30 days in the source), in clock ticks.
MaxOfflineTicks == 1
\* config['max_storage_size_mb'] (500 in the source), in size units.
MaxStorageSize == 5
\* Largest access_count a resource is followed to.
MaxAccess == 1

PatientIds == {"P1"}
AssessmentIds == {"A1"}
\* The callers of OfflineManager.sync_data: one in Spec, two in SpecGate.
Threads == {"t1", "t2"}
Callers == {"t1"}
\* The callers of SyncService.sync_data: the scheduler thread (sync_worker)
\* and the admin trigger (force = True).
SsThreads == {"sched", "admin"}

\* ------------------------------------------------------ values and dicts
\* A timestamp field of a document: absent/None, an unparseable string, or an
\* ISO string, timezone-naive or timezone-aware, of instant t.
TsNone == <<"none", 0>>
TsBad == <<"bad", 0>>
TsNaive(t) == <<"naive", t>>
TsAware(t) == <<"aware", t>>

\* dict.get(key): the value, or None when the key is missing.
Get(d, k) == IF k \in DOMAIN d THEN d[k] ELSE TsNone

\* int(time.time()) of clock tick t.
Sec(t) == t \div TicksPerSec

\* config['sync_priorities']
PriorityAssessment == 10
PriorityPatient == 5
PriorityCallRecords == 3

\* Patient.to_dict(): ver stands for the descriptive fields (name, age, ...),
\* one value per save; updated_at is the caller's ISO string.
PatientDict(pid, t) ==
    [patient_id |-> pid, ver |-> t, updated_at |-> TsNaive(t)]

\* HealthAssessment.to_dict(): no updated_at field.
AssessmentDict(aid, pid, t) ==
    [assessment_id |-> aid, patient_id |-> pid, ver |-> t]

\* ---------------------------------------------------------------- state
VARIABLES
    now,                 \* the wall clock (datetime.now())
    net,                 \* whether the MongoDB server is reachable
    is_connected,        \* Database.is_connected
    mongo_db,            \* central store: collection name -> set of documents
    patients,            \* local table patients
    health_assessments,  \* local table health_assessments
    sync_queue,          \* local table sync_queue
    sync_in_progress,    \* OfflineManager.sync_in_progress
    last_sync_time,      \* OfflineManager.last_sync_time (-1: None)
    pc,                  \* per caller of sync_data: position in the pass
    records_to_sync,     \* per caller: the batch still to iterate
    cur,                 \* per caller: the batch record being synced
    counts,              \* per caller: <<synced_count, failed_count>>
    rc_central,          \* _resolve_conflict call: central_data
    rc_local,            \* _resolve_conflict call: local_data
    rc_result,           \* _resolve_conflict call: "unset", "local", "remote"
    sync_data_table,     \* SyncService: local table sync_data
    ss_pc,               \* SyncService pass, per caller: position
    ss_rows,             \* SyncService pass, per caller: pending_rows left
    ss_tx,               \* SyncService pass, per caller: uncommitted updates
    ss_lock,             \* SyncService: holder of the SQLite write lock
    ss_probe,            \* SyncService pass, per caller: _is_online() at entry
    ss_start,            \* SyncService pass, per caller: pending_rows fetched
    ss_sent,             \* SyncService pass, per caller: rows sent so far
    ss_retried,          \* retry_failed_sync: retried_count returned, or -1
    ss_result,           \* SyncService pass, per caller: sync_result of the row
    resources,           \* local table resources
    last_clean,          \* the latest _clean_old_synced_records: cutoff, rows
    last_evict           \* the latest _clean_old_resources: what it did,
                         \* until the resources table is written again

vars == <<now, net, is_connected, mongo_db, patients, health_assessments,
          sync_queue, sync_in_progress, last_sync_time, pc, records_to_sync,
          cur, counts, rc_central, rc_local, rc_result, sync_data_table,
          ss_pc, ss_rows, ss_tx, ss_lock, ss_probe, ss_start, ss_sent,
          ss_retried, ss_result, resources, last_clean, last_evict>>

dbVars == <<net, is_connected, mongo_db>>
localVars == <<patients, health_assessments, sync_queue>>
passVars == <<sync_in_progress, last_sync_time, pc, records_to_sync, cur,
              counts>>
rcVars == <<rc_central, rc_local, rc_result>>
ssVars == <<sync_data_table, ss_pc, ss_rows, ss_tx, ss_lock, ss_probe,
           ss_start, ss_sent, ss_retried, ss_result>>
rmVars == <<resources, last_clean, last_evict>>
\* What no save and no pass of OfflineManager touches.
elsewhere == <<rcVars, ssVars, rmVars>>

NoRecord == [sync_id |-> <<"", "", -1>>]

\* Python's None, as a value no dict equals.
PyNone == [none |-> TRUE]

\* SyncService.__init__: the sync_data table created empty, no pass running.
SsInit ==
    /\ sync_data_table = {}
    /\ ss_pc = [t \in SsThreads |-> "idle"]
    /\ ss_rows = [t \in SsThreads |-> <<>>]
    /\ ss_tx = [t \in SsThreads |-> {}]
    /\ ss_lock = "free"
    /\ ss_probe = [t \in SsThreads |-> TRUE]
    /\ ss_start = [t \in SsThreads |-> <<>>]
    /\ ss_sent = [t \in SsThreads |-> <<>>]
    /\ ss_retried = -1
    /\ ss_result = [t \in SsThreads |-> PyNone]

\* No call of _resolve_conflict under way.
RcIdle ==
    /\ rc_central = PyNone
    /\ rc_local = PyNone
    /\ rc_result = "unset"

\* OfflineManager.__init__ / Database.__init__: empty tables (CREATE TABLE
\* IF NOT EXISTS on a fresh file), no sync running, the connection flag set by
\* the ping of _connect_mongodb.
OmInit ==
    /\ now = 0
    /\ net \in BOOLEAN
    /\ is_connected = net
    /\ mongo_db = [patients |-> {}, health_assessments |-> {}]
    /\ patients = {}
    /\ health_assessments = {}
    /\ sync_queue = {}
    /\ sync_in_progress = FALSE
    /\ last_sync_time = -1
    /\ pc = [t \in Threads |-> "idle"]
    /\ records_to_sync = [t \in Threads |-> <<>>]
    /\ cur = [t \in Threads |-> NoRecord]
    /\ counts = [t \in Threads |-> <<0, 0>>]

\* No resource sweep has run since the resources table was last written.
NoSweep == [total |-> -1, evicted |-> <<>>, failed |-> {}]

\* The resources table created empty; the resource manager has not run.
RmInit ==
    /\ resources = {}
    /\ last_clean = [cutoff |-> -1, removed |-> {}]
    /\ last_evict = NoSweep

Init == OmInit /\ RcIdle /\ SsInit /\ RmInit

\* ------------------------------------------------------------ local store
\* _add_to_sync_queue: INSERT INTO sync_queue on a connection of its own,
\* committed at once.  The INSERT raises when sync_id (the primary key) is
\* already present, or when SQLite reports an error (locked database, I/O):
\* io_ok is that outcome.  Any exception is caught and False is returned, the
\* table unchanged.  Result: <<returned value, table>>.
SyncIdOf(record_type, record_id, t) == <<record_type, record_id, Sec(t)>>

\* An enqueue that replaces the entries the record already has.
enqueue_replacing(queue, record_type, record_id, data, priority, t, io_ok) ==
    LET row == [sync_id |-> SyncIdOf(record_type, record_id, t),
                record_type |-> record_type, record_id |-> record_id,
                data |-> data, priority |-> priority, created_at |-> t,
                retry_count |-> 0, last_attempt |-> -1,
                error_message |-> "NULL"]
    IN IF io_ok
       THEN <<TRUE, {q \in queue : ~(/\ q.record_type = record_type
                                     /\ q.record_id = record_id)} \cup {row}>>
       ELSE <<FALSE, queue>>

add_to_sync_queue(queue, record_type, record_id, data, priority, t, io_ok) ==
    LET sync_id == SyncIdOf(record_type, record_id, t)
        row == [sync_id |-> sync_id, record_type |-> record_type,
                record_id |-> record_id, data |-> data, priority |-> priority,
                created_at |-> t, retry_count |-> 0, last_attempt |-> -1,
                error_message |-> "NULL"]
    IN IF io_ok /\ \A q \in queue : q.sync_id # sync_id
       THEN <<TRUE, queue \cup {row}>>
       ELSE <<FALSE, queue>>

\* The outcomes of the storage steps of a save: every step succeeds, the
\* record write (or anything before it) raises, the queue insert raises, the
\* final conn.commit() raises.
SaveOutcomes == {"ok", "write_fails", "enqueue_fails", "commit_fails"}

\* The UPDATE / INSERT of save_patient_offline on the patients table.
UpsertPatient(table, pid, data, t) ==
    IF \E r \in table : r.patient_id = pid
    THEN {IF r.patient_id = pid
          THEN [r EXCEPT !.data = data, !.updated_at = t, !.synced = 0]
          ELSE r : r \in table}
    ELSE table \cup {[patient_id |-> pid, data |-> data, created_at |-> t,
                      updated_at |-> t, synced |-> 0]}

\* The UPDATE / INSERT of save_assessment_offline on health_assessments.
UpsertAssessment(table, aid, pid, data, t) ==
    IF \E r \in table : r.assessment_id = aid
    THEN {IF r.assessment_id = aid
          THEN [r EXCEPT !.data = data, !.synced = 0]
          ELSE r : r \in table}
    ELSE table \cup {[assessment_id |-> aid, patient_id |-> pid, data |-> data,
                      created_at |-> t, synced |-> 0]}

\* save_patient_offline.  The record write is pending on the caller's
\* connection until conn.commit(); the queue insert commits on its own
\* connection and its returned value is ignored.  An exception anywhere in the
\* caller returns False and the uncommitted record write is lost.
save_patient_offline(pid, outcome) ==
    /\ now < MaxTime
    /\ now' = now + 1
    /\ LET data == PatientDict(pid, now')
           enq == add_to_sync_queue(sync_queue, "patient", pid, data,
                                    PriorityPatient, now',
                                    outcome # "enqueue_fails")
       IN IF outcome = "write_fails"
          THEN UNCHANGED <<patients, sync_queue>>
          ELSE /\ sync_queue' = enq[2]
               /\ patients' = IF outcome = "commit_fails"
                              THEN patients
                              ELSE UpsertPatient(patients, pid, data, now')
    /\ UNCHANGED <<health_assessments, dbVars, passVars>>
    /\ UNCHANGED elsewhere

\* save_assessment_offline: as save_patient_offline, with the assessment
\* priority.
save_assessment_offline(aid, pid, outcome) ==
    /\ now < MaxTime
    /\ now' = now + 1
    /\ LET data == AssessmentDict(aid, pid, now')
           enq == add_to_sync_queue(sync_queue, "health_assessment", aid, data,
                                    PriorityAssessment, now',
                                    outcome # "enqueue_fails")
       IN IF outcome = "write_fails"
          THEN UNCHANGED <<health_assessments, sync_queue>>
          ELSE /\ sync_queue' = enq[2]
               /\ health_assessments' =
                      IF outcome = "commit_fails"
                      THEN health_assessments
                      ELSE UpsertAssessment(health_assessments, aid, pid, data,
                                            now')
    /\ UNCHANGED <<patients, dbVars, passVars>>
    /\ UNCHANGED elsewhere

SavePatient == \E pid \in PatientIds, o \in SaveOutcomes :
                   save_patient_offline(pid, o)

SaveAssessment == \E aid \in AssessmentIds, pid \in PatientIds,
                     o \in SaveOutcomes :
                       save_assessment_offline(aid, pid, o)

\* --------------------------------------------------- central store (Database)
\* Truth value of a dict or None in an `if`: None and the empty dict are false.
Truthy(x) == x # PyNone /\ DOMAIN x # {}

\* dict with d[k] = v set (added when missing).
SetField(d, k, v) ==
    [x \in DOMAIN d \cup {k} |-> IF x = k THEN v ELSE d[x]]

\* MongoDB $set: the fields of `fields` written over those of doc.
Merge(doc, fields) ==
    [x \in DOMAIN doc \cup DOMAIN fields |->
        IF x \in DOMAIN fields THEN fields[x] ELSE doc[x]]

\* Database.is_online(): reconnects when the flag is down; the flag is never
\* lowered once it is up.
is_online(conn, reachable) == IF ~conn THEN reachable ELSE TRUE

\* The result every Database method returns when its body raised.
ErrorResult == [success |-> FALSE, error |-> "error"]

\* The SQLite fall-back of Database (_sqlite_find_one, _sqlite_insert,
\* _sqlite_update) on the tables of _init_sqlite: these have no patient_id /
\* assessment_id column, the statement raises and the error result is
\* returned.
sqlite_fallback == ErrorResult

Matching(docs, key, value) == {d \in docs : key \in DOMAIN d /\ d[key] = value}

\* Database.find_one: the result wrapper, never None and never empty.
find_one(docs, key, value, conn, reachable) ==
    IF is_online(conn, reachable)
    THEN IF ~reachable
         THEN ErrorResult
         ELSE IF Matching(docs, key, value) # {}
              THEN [success |-> TRUE,
                    document |-> CHOOSE d \in Matching(docs, key, value) : TRUE,
                    online |-> TRUE]
              ELSE sqlite_fallback
    ELSE sqlite_fallback

\* Database.insert_one: <<result wrapper, collection>>.  created_at is added
\* when the document has none.
insert_one(docs, document, t, conn, reachable) ==
    LET doc == IF "created_at" \in DOMAIN document
               THEN document
               ELSE SetField(document, "created_at", TsNaive(t))
    IN IF is_online(conn, reachable)
       THEN IF ~reachable
            THEN <<ErrorResult, docs>>
            ELSE <<[success |-> TRUE, online |-> TRUE], docs \cup {doc}>>
       ELSE <<sqlite_fallback, docs>>

\* Database.update_one with {'$set': fields}: <<result wrapper, collection>>.
\* updated_at of the $set is overwritten with the current time; one matching
\* document is updated, none is created when nothing matches.
update_one(docs, key, value, fields, t, conn, reachable) ==
    LET set == SetField(fields, "updated_at", TsNaive(t))
        hit == Matching(docs, key, value)
    IN IF is_online(conn, reachable)
       THEN IF ~reachable
            THEN <<ErrorResult, docs>>
            ELSE IF hit = {}
                 THEN <<[success |-> TRUE, matched_count |-> 0,
                         online |-> TRUE], docs>>
                 ELSE LET d == CHOOSE x \in hit : TRUE
                      IN <<[success |-> TRUE, matched_count |-> 1,
                            online |-> TRUE],
                           (docs \ {d}) \cup {Merge(d, set)}>>
       ELSE <<sqlite_fallback, docs>>

\* ------------------------------------------------------- conflict resolver
\* _resolve_conflict(record_type, central_data, local_data): TRUE when the
\* local data is to be used.  Every exception (None has no .get, an
\* unparseable string, comparing a naive with an aware datetime) returns TRUE.
resolve_conflict(central_data, local_data) ==
    IF central_data = PyNone \/ local_data = PyNone
    THEN TRUE
    ELSE LET central_time == Get(central_data, "updated_at")
             local_time == Get(local_data, "updated_at")
         IN IF central_time = TsNone \/ local_time = TsNone
            THEN TRUE
            ELSE IF central_time[1] = "bad" \/ local_time[1] = "bad"
                 THEN TRUE
                 ELSE IF central_time[1] # local_time[1]
                      THEN TRUE
                      ELSE local_time[2] > central_time[2]

\* --------------------------------------------------------------- sync queue
\* An ordering that puts the most-retried entry of a priority first.
BeforeMostRetried(a, b) ==
    \/ a.priority > b.priority
    \/ a.priority = b.priority /\ a.retry_count > b.retry_count
    \/ a.priority = b.priority /\ a.retry_count = b.retry_count
       /\ a.created_at < b.created_at

\* ORDER BY priority DESC, retry_count ASC, created_at ASC
Before(a, b) ==
    \/ a.priority > b.priority
    \/ a.priority = b.priority /\ a.retry_count < b.retry_count
    \/ a.priority = b.priority /\ a.retry_count = b.retry_count
       /\ a.created_at < b.created_at

RECURSIVE OrderBy(_)
OrderBy(rows) ==
    IF rows = {}
    THEN <<>>
    ELSE LET first == CHOOSE x \in rows : \A y \in rows : ~Before(y, x)
         IN <<first>> \o OrderBy(rows \ {first})

\* A batch of one entry, whatever the limit.
get_sync_queue_records_single(queue, limit) ==
    LET sorted == OrderBy(queue)
    IN IF sorted = <<>> THEN <<>> ELSE <<Head(sorted)>>

\* _get_sync_queue_records(limit): SELECT * ... ORDER BY ... LIMIT ?
get_sync_queue_records(queue, limit) ==
    LET sorted == OrderBy(queue)
    IN IF Len(sorted) <= limit THEN sorted ELSE SubSeq(sorted, 1, limit)

\* An attempt that stamps last_attempt and leaves retry_count alone.
update_sync_attempt_uncounted(queue, sync_id, t) ==
    {IF q.sync_id = sync_id THEN [q EXCEPT !.last_attempt = t] ELSE q :
        q \in queue}

\* The counter kept in a row stops at RetryCap, above every count an entry
\* that can be synced reaches.
RetryCap == MaxRetry + 2

\* _update_sync_attempt: UPDATE ... WHERE sync_id = ?
update_sync_attempt(queue, sync_id, t) ==
    {IF q.sync_id = sync_id
     THEN [q EXCEPT !.retry_count = IF @ < RetryCap THEN @ + 1 ELSE @,
                    !.last_attempt = t]
     ELSE q : q \in queue}

\* A success resolution that deletes every entry of the record of sync_id.
update_sync_record_status_by_record(queue, sync_id, success, error_message) ==
    {q \in queue :
        \A x \in queue : x.sync_id = sync_id => x.record_id # q.record_id}

\* _update_sync_record_status: DELETE on success, error_message on failure.
update_sync_record_status(queue, sync_id, success, error_message) ==
    IF success
    THEN {q \in queue : q.sync_id # sync_id}
    ELSE {IF q.sync_id = sync_id
          THEN [q EXCEPT !.error_message = error_message]
          ELSE q : q \in queue}

\* _mark_record_synced on the patients table.
mark_patient_synced(table, record_type, record_id) ==
    IF record_type = "patient"
    THEN {IF r.patient_id = record_id THEN [r EXCEPT !.synced = 1] ELSE r :
             r \in table}
    ELSE table

\* _mark_record_synced on the health_assessments table.
mark_assessment_synced(table, record_type, record_id) ==
    IF record_type = "health_assessment"
    THEN {IF r.assessment_id = record_id THEN [r EXCEPT !.synced = 1] ELSE r :
             r \in table}
    ELSE table

\* ------------------------------------------------------------- sync engine
\* _sync_patient: <<returned value, patients collection>>.
sync_patient(docs, patient_id, data, t, conn, reachable) ==
    LET central_patient == find_one(docs, "patient_id", patient_id, conn,
                                    reachable)
        upd == update_one(docs, "patient_id", patient_id, data, t, conn,
                          reachable)
        ins == insert_one(docs, data, t, conn, reachable)
    IN IF Truthy(central_patient)
       THEN IF resolve_conflict(central_patient, data)
            THEN <<upd[1] # PyNone, upd[2]>>
            ELSE <<TRUE, docs>>
       ELSE <<ins[1] # PyNone, ins[2]>>

\* _sync_assessment: <<returned value, health_assessments collection>>.
sync_assessment(docs, assessment_id, data, t, conn, reachable) ==
    LET central_assessment == find_one(docs, "assessment_id", assessment_id,
                                       conn, reachable)
        upd == update_one(docs, "assessment_id", assessment_id, data, t, conn,
                          reachable)
        ins == insert_one(docs, data, t, conn, reachable)
    IN IF Truthy(central_assessment)
       THEN <<upd[1] # PyNone, upd[2]>>
       ELSE <<ins[1] # PyNone, ins[2]>>

\* A trigger that does not look at the in-progress flag.
SyncTriggerUngated(t) ==
    /\ pc[t] = "idle"
    /\ pc' = [pc EXCEPT ![t] = "gate"]
    /\ UNCHANGED <<now, dbVars, localVars, sync_in_progress, last_sync_time,
                   records_to_sync, cur, counts>>
    /\ UNCHANGED elsewhere

\* sync_data, lines 417-422: the in-progress test; the call is rejected
\* ('Sync already in progress') while the flag is up.
SyncTrigger(t) ==
    /\ pc[t] = "idle"
    /\ IF sync_in_progress
       THEN pc' = [pc EXCEPT ![t] = "rejected"]
       ELSE pc' = [pc EXCEPT ![t] = "gate"]
    /\ UNCHANGED <<now, dbVars, localVars, sync_in_progress, last_sync_time,
                   records_to_sync, cur, counts>>
    /\ UNCHANGED elsewhere

\* ... and, as a separate statement, the assignment of the flag.
SetInProgress(t) ==
    /\ pc[t] = "gate"
    /\ sync_in_progress' = TRUE
    /\ pc' = [pc EXCEPT ![t] = "check"]
    /\ UNCHANGED <<now, dbVars, localVars, last_sync_time, records_to_sync,
                   cur, counts>>
    /\ UNCHANGED elsewhere

\* A pass that fetches and drains without the connectivity check.
CheckAndFetchUnchecked(t) ==
    /\ pc[t] = "check"
    /\ records_to_sync' =
           [records_to_sync EXCEPT
               ![t] = get_sync_queue_records(sync_queue, BatchLimit)]
    /\ counts' = [counts EXCEPT ![t] = <<0, 0>>]
    /\ pc' = [pc EXCEPT ![t] = "loop"]
    /\ UNCHANGED <<now, dbVars, localVars, sync_in_progress, last_sync_time,
                   cur>>
    /\ UNCHANGED elsewhere

\* A connectivity check whose failure branch returns with the flag still up.
CheckAndFetchHolding(t) ==
    /\ pc[t] = "check"
    /\ IF ~is_connected
       THEN /\ pc' = [pc EXCEPT ![t] = "no_connectivity"]
            /\ UNCHANGED <<records_to_sync, counts>>
       ELSE /\ records_to_sync' =
                  [records_to_sync EXCEPT
                      ![t] = get_sync_queue_records(sync_queue, BatchLimit)]
            /\ counts' = [counts EXCEPT ![t] = <<0, 0>>]
            /\ pc' = [pc EXCEPT ![t] = "loop"]
    /\ UNCHANGED <<now, dbVars, localVars, sync_in_progress, last_sync_time,
                   cur>>
    /\ UNCHANGED elsewhere

\* sync_data, lines 430-442: the connectivity check (the flag
\* Database.is_connected, no probe) and the batch fetch.
CheckAndFetch(t) ==
    /\ pc[t] = "check"
    /\ IF ~is_connected
       THEN /\ sync_in_progress' = FALSE
            /\ pc' = [pc EXCEPT ![t] = "no_connectivity"]
            /\ UNCHANGED <<records_to_sync, counts>>
       ELSE /\ records_to_sync' =
                  [records_to_sync EXCEPT
                      ![t] = get_sync_queue_records(sync_queue, BatchLimit)]
            /\ counts' = [counts EXCEPT ![t] = <<0, 0>>]
            /\ pc' = [pc EXCEPT ![t] = "loop"]
            /\ UNCHANGED sync_in_progress
    /\ UNCHANGED <<now, dbVars, localVars, last_sync_time, cur>>
    /\ UNCHANGED elsewhere

\* sync_data, lines 418-422 and 432-436: the early return of a rejected call
\* and of a pass without connectivity.
Return(t) ==
    /\ pc[t] \in {"rejected", "no_connectivity"}
    /\ pc' = [pc EXCEPT ![t] = "idle"]
    /\ UNCHANGED <<now, dbVars, localVars, sync_in_progress, last_sync_time,
                   records_to_sync, cur, counts>>
    /\ UNCHANGED elsewhere

\* sync_data, lines 417-442, as one step of a caller with no competing
\* caller: the test of the flag, its assignment, the connectivity check
\* (which takes the flag back on failure) and the batch fetch.
StartPass(t) ==
    /\ pc[t] = "idle"
    /\ IF sync_in_progress \/ ~is_connected
       THEN UNCHANGED <<pc, sync_in_progress, records_to_sync, counts>>
       ELSE /\ sync_in_progress' = TRUE
            /\ records_to_sync' =
                  [records_to_sync EXCEPT
                      ![t] = get_sync_queue_records(sync_queue, BatchLimit)]
            /\ counts' = [counts EXCEPT ![t] = <<0, 0>>]
            /\ pc' = [pc EXCEPT ![t] = "loop"]
    /\ UNCHANGED <<now, dbVars, localVars, last_sync_time, cur>>
    /\ UNCHANGED elsewhere

\* A loop that passes over the record after the one it takes.
SyncAttemptSkipping(t) ==
    /\ pc[t] = "loop"
    /\ records_to_sync[t] # <<>>
    /\ LET record == Head(records_to_sync[t])
       IN /\ cur' = [cur EXCEPT ![t] = record]
          /\ sync_queue' = update_sync_attempt(sync_queue, record.sync_id, now)
    /\ records_to_sync' =
           [records_to_sync EXCEPT
               ![t] = IF Len(@) > 1 THEN Tail(Tail(@)) ELSE Tail(@)]
    /\ pc' = [pc EXCEPT ![t] = "attempted"]
    /\ UNCHANGED <<now, dbVars, patients, health_assessments, sync_in_progress,
                   last_sync_time, counts>>
    /\ UNCHANGED elsewhere

\* The loop takes the next record; _sync_record, lines 529-536: the attempt
\* is recorded before anything is sent.
SyncAttempt(t) ==
    /\ pc[t] = "loop"
    /\ records_to_sync[t] # <<>>
    /\ LET record == Head(records_to_sync[t])
       IN /\ cur' = [cur EXCEPT ![t] = record]
          /\ sync_queue' = update_sync_attempt(sync_queue, record.sync_id, now)
    /\ records_to_sync' = [records_to_sync EXCEPT ![t] = Tail(@)]
    /\ pc' = [pc EXCEPT ![t] = "attempted"]
    /\ UNCHANGED <<now, dbVars, patients, health_assessments, sync_in_progress,
                   last_sync_time, counts>>
    /\ UNCHANGED elsewhere

\* _sync_record, lines 538-553: the handler of the record type, then on a true
\* result the queue row is deleted and the record marked synced; a record
\* of any other type returns False with no call of the Database.
SyncResolve(t) ==
    /\ pc[t] = "attempted"
    /\ LET record == cur[t]
           known == record.record_type \in {"patient", "health_assessment"}
           coll == IF record.record_type = "patient"
                   THEN "patients" ELSE "health_assessments"
           res == IF record.record_type = "patient"
                  THEN sync_patient(mongo_db.patients, record.record_id,
                                    record.data, now, is_connected, net)
                  ELSE IF record.record_type = "health_assessment"
                  THEN sync_assessment(mongo_db.health_assessments,
                                       record.record_id, record.data, now,
                                       is_connected, net)
                  ELSE <<FALSE, mongo_db.health_assessments>>
       IN /\ mongo_db' = [mongo_db EXCEPT ![coll] = res[2]]
          /\ is_connected' = IF known
                             THEN is_online(is_connected, net)
                             ELSE is_connected
          /\ IF res[1]
             THEN /\ sync_queue' = update_sync_record_status(
                                       sync_queue, record.sync_id, TRUE, "NULL")
                  /\ patients' = mark_patient_synced(
                                     patients, record.record_type,
                                     record.record_id)
                  /\ health_assessments' = mark_assessment_synced(
                                     health_assessments, record.record_type,
                                     record.record_id)
                  /\ counts' = [counts EXCEPT ![t] = <<@[1] + 1, @[2]>>]
             ELSE /\ counts' = [counts EXCEPT ![t] = <<@[1], @[2] + 1>>]
                  /\ UNCHANGED <<sync_queue, patients, health_assessments>>
    /\ cur' = [cur EXCEPT ![t] = NoRecord]
    /\ pc' = [pc EXCEPT ![t] = "loop"]
    /\ UNCHANGED <<now, net, sync_in_progress, last_sync_time, records_to_sync>>
    /\ UNCHANGED elsewhere

\* sync_data, lines 456-475: the batch is exhausted; the finally clause
\* clears the flag.
FinishPass(t) ==
    /\ pc[t] = "loop"
    /\ records_to_sync[t] = <<>>
    /\ last_sync_time' = now
    /\ sync_in_progress' = FALSE
    /\ pc' = [pc EXCEPT ![t] = "idle"]
    /\ counts' = [counts EXCEPT ![t] = <<0, 0>>]
    /\ UNCHANGED <<now, dbVars, localVars, records_to_sync, cur>>
    /\ UNCHANGED elsewhere

\* ------------------------------------------------------------- environment
\* The process dies and is started again: the tables on disk survive, the
\* in-memory state is that of __init__.
Restart ==
    /\ \E t \in Threads : pc[t] # "idle"
    /\ \A q \in sync_queue : q.retry_count <= MaxRetry
    /\ is_connected' = net
    /\ sync_in_progress' = FALSE
    /\ last_sync_time' = -1
    /\ pc' = [t \in Threads |-> "idle"]
    /\ records_to_sync' = [t \in Threads |-> <<>>]
    /\ cur' = [t \in Threads |-> NoRecord]
    /\ counts' = [t \in Threads |-> <<0, 0>>]
    /\ UNCHANGED <<now, net, mongo_db, localVars>>
    /\ UNCHANGED elsewhere

\* Connectivity to the central store comes and goes.
NetChange ==
    /\ net' = ~net
    /\ UNCHANGED <<now, is_connected, mongo_db, localVars, passVars>>
    /\ UNCHANGED elsewhere

\* Any other service calls a Database method, whose is_online() reconnects.
DbReconnect ==
    /\ ~is_connected
    /\ net
    /\ is_connected' = is_online(is_connected, net)
    /\ UNCHANGED <<now, net, mongo_db, localVars, passVars>>
    /\ UNCHANGED elsewhere

\* Another device writes its copy of a patient to the central store.
RemoteWrite(pid) ==
    /\ now < MaxTime
    /\ net
    /\ now' = now + 1
    /\ LET doc == [patient_id |-> pid, ver |-> 0, updated_at |-> TsNaive(now')]
           old == Matching(mongo_db.patients, "patient_id", pid)
       IN mongo_db' = [mongo_db EXCEPT
                          !.patients = (@ \ old) \cup {doc}]
    /\ UNCHANGED <<net, is_connected, localVars, passVars>>
    /\ UNCHANGED elsewhere

Next ==
    \/ SavePatient
    \/ SaveAssessment
    \/ \E t \in Callers : StartPass(t)
    \/ \E t \in Callers : SyncAttempt(t)
    \/ \E t \in Callers : SyncResolve(t)
    \/ \E t \in Callers : FinishPass(t)
    \/ Restart
    \/ NetChange
    \/ DbReconnect
    \/ \E pid \in PatientIds : RemoteWrite(pid)

Spec == Init /\ [][Next]_vars

\* The steps of a pass of caller t.
PassStep(t) ==
    \/ StartPass(t)
    \/ SyncAttempt(t)
    \/ SyncResolve(t)
    \/ FinishPass(t)

\* A device whose process keeps running and whose passes are triggered
\* again and again: a pass that can take a step takes it.
NextDrain ==
    \/ SavePatient
    \/ SaveAssessment
    \/ \E t \in Callers : PassStep(t)
    \/ NetChange
    \/ DbReconnect

SpecDrain ==
    /\ Init
    /\ [][NextDrain]_vars
    /\ \A t \in Callers : WF_vars(PassStep(t))

\* An entry of a record type that _sync_record has no handler for, put in
\* the queue by _add_to_sync_queue; the queue holds one such entry at most.
EnqueueCallRecord(priority) ==
    /\ now < MaxTime
    /\ \A q \in sync_queue : q.record_type # "call_record"
    /\ now' = now + 1
    /\ sync_queue' = add_to_sync_queue(sync_queue, "call_record", "CR1",
                                       [call_id |-> "CR1"], priority, now',
                                       TRUE)[2]
    /\ UNCHANGED <<patients, health_assessments, dbVars, passVars>>
    /\ UNCHANGED elsewhere

\* The priorities the unsupported entry is queued with: above, equal to and
\* below that of a patient entry.
CallRecordPriorities ==
    {PriorityAssessment, PriorityPatient, PriorityCallRecords}

\* Patient saves next to one entry that fails on every attempt, with passes
\* triggered again and again.
NextPoison ==
    \/ \E pid \in PatientIds : save_patient_offline(pid, "ok")
    \/ \E priority \in CallRecordPriorities : EnqueueCallRecord(priority)
    \/ \E t \in Callers : PassStep(t)
    \/ NetChange
    \/ DbReconnect

SpecPoison ==
    /\ Init
    /\ [][NextPoison]_vars
    /\ \A t \in Callers : WF_vars(PassStep(t))

\* The clock moves on with no operation under way.
ClockTick ==
    /\ now < MaxTime
    /\ now' = now + 1
    /\ UNCHANGED <<dbVars, localVars, passVars, rcVars, ssVars, rmVars>>

\* ------------------------------------------------------- resource manager
\* The files a caller registers, with os.path.getsize of each, and the
\* resource_type each is registered with.
FilePaths == {"f1", "f2", "f3"}
size_bytes_of == [f1 |-> 1, f2 |-> 3, f3 |-> 2]
Registrations ==
    {<<"essential", "f1">>, <<"audio", "f1">>, <<"system", "f2">>,
     <<"audio", "f2">>, <<"audio", "f3">>}

\* The share of max_storage_size_mb that starts the eviction, and the share
\* it evicts down to, in percent.
TriggerPercent == 80
TargetPercent == 60

\* A sweep that deletes every old synced patient, whatever its assessments.
clean_old_synced_records_unguarded(ptable, atable, t) ==
    LET cutoff_date == t - MaxOfflineTicks
    IN <<{r \in ptable : ~(r.synced = 1 /\ r.updated_at < cutoff_date)},
         {a \in atable : ~(a.synced = 1 /\ a.created_at < cutoff_date)}>>

\* A sweep whose DELETEs do not test the synced column.
clean_old_synced_records_any_status(ptable, atable, t) ==
    LET cutoff_date == t - MaxOfflineTicks
        kept_assessments == {a \in atable : ~(a.created_at < cutoff_date)}
        recent_patient_ids ==
            {a.patient_id :
                a \in {x \in kept_assessments : x.created_at >= cutoff_date}}
    IN <<{r \in ptable :
             ~(/\ r.updated_at < cutoff_date
               /\ r.patient_id \notin recent_patient_ids)},
         kept_assessments>>

\* _clean_old_synced_records: the two DELETEs, in one transaction; the
\* result is <<patients, health_assessments>>.
clean_old_synced_records(ptable, atable, t) ==
    LET cutoff_date == t - MaxOfflineTicks
        kept_assessments ==
            {a \in atable : ~(a.synced = 1 /\ a.created_at < cutoff_date)}
        recent_patient_ids ==
            {a.patient_id :
                a \in {x \in kept_assessments : x.created_at >= cutoff_date}}
    IN <<{r \in ptable :
             ~(/\ r.synced = 1
               /\ r.updated_at < cutoff_date
               /\ r.patient_id \notin recent_patient_ids)},
         kept_assessments>>

\* Resources compared by access count first.
SortsBeforeByCount(a, b) ==
    \/ a.access_count < b.access_count
    \/ a.access_count = b.access_count /\ a.last_accessed < b.last_accessed

\* ORDER BY last_accessed ASC, access_count ASC.
SortsBefore(a, b) ==
    \/ a.last_accessed < b.last_accessed
    \/ a.last_accessed = b.last_accessed /\ a.access_count < b.access_count

\* The row lists the SELECT of _clean_old_resources can return: rows that
\* compare equal come in any order.
SortedResources(table) ==
    {rs \in [1..Cardinality(table) -> table] :
        /\ \A i, j \in DOMAIN rs : i # j => rs[i] # rs[j]
        /\ \A i, j \in DOMAIN rs : i < j => ~SortsBefore(rs[j], rs[i])}

RECURSIVE TotalSize(_)
TotalSize(table) ==
    IF table = {} THEN 0
    ELSE LET r == CHOOSE x \in table : TRUE
         IN r.size_bytes + TotalSize(table \ {r})

\* Only 'essential' is skipped.
EssentialOnly == {"essential"}

\* if resource_type in ['essential', 'system']: continue
EssentialTypes == {"essential", "system"}

\* An amount to remove that takes the storage down to the trigger level.
to_remove_to_trigger(total_size) ==
    total_size * 100 - MaxStorageSize * TriggerPercent

\* to_remove_mb = total_size_mb - target_size_mb, in hundredths of a unit.
to_remove(total_size) == total_size * 100 - MaxStorageSize * TargetPercent

\* The loop of _clean_old_resources over the rows left, with removed the
\* size removed so far and unremovable the files os.remove fails on: the
\* list of the rows deleted and the set of the rows whose file stayed.
RECURSIVE clean_loop(_, _, _, _)
clean_loop(rs, goal, removed, unremovable) ==
    IF rs = <<>> THEN [evicted |-> <<>>, failed |-> {}]
    ELSE LET res == Head(rs)
             rest == Tail(rs)
         IN IF res.resource_type \in EssentialTypes
            THEN clean_loop(rest, goal, removed, unremovable)
            ELSE IF res.file_path \in unremovable
            THEN LET r == clean_loop(rest, goal, removed, unremovable)
                 IN [r EXCEPT !.failed = @ \cup {res}]
            ELSE IF (removed + res.size_bytes) * 100 >= goal
            THEN [evicted |-> <<res>>, failed |-> {}]
            ELSE LET r == clean_loop(rest, goal, removed + res.size_bytes,
                                     unremovable)
                 IN [r EXCEPT !.evicted = <<res>> \o @]

\* if total_size_mb > self.config['max_storage_size_mb'] * 0.8
OverTrigger(total_size) ==
    total_size * 100 > MaxStorageSize * TriggerPercent

\* The sets of files os.remove can fail on during a sweep of the table.
Unremovables(table) ==
    IF OverTrigger(TotalSize(table))
    THEN SUBSET {r.file_path :
                    r \in {x \in table :
                              x.resource_type \notin EssentialTypes}}
    ELSE {{}}

\* _clean_old_resources on the rows as the SELECT returned them.
clean_old_resources(rs, unremovable) ==
    LET total_size == TotalSize({rs[i] : i \in DOMAIN rs})
    IN IF OverTrigger(total_size)
       THEN [total |-> total_size] @@
            clean_loop(rs, to_remove(total_size), 0, unremovable)
       ELSE [total |-> total_size, evicted |-> <<>>, failed |-> {}]

\* _manage_storage, one round of _resource_management_loop: the record
\* sweep when the database file is over 90% of the limit, then the resource
\* sweep.
ManageStorage(over_limit) ==
    /\ IF over_limit
       THEN LET kept == clean_old_synced_records(patients, health_assessments,
                                                 now)
            IN /\ patients' = kept[1]
               /\ health_assessments' = kept[2]
               /\ last_clean' =
                      [cutoff |-> now - MaxOfflineTicks,
                       removed |-> (patients \ kept[1])
                                   \cup (health_assessments \ kept[2])]
       ELSE UNCHANGED <<patients, health_assessments, last_clean>>
    /\ \E rs \in SortedResources(resources) :
           \E unremovable \in Unremovables(resources) :
              LET done == clean_old_resources(rs, unremovable)
              IN /\ last_evict' = done
                 /\ resources' =
                        resources \ {done.evicted[i] :
                                        i \in DOMAIN done.evicted}
    /\ UNCHANGED <<now, dbVars, sync_queue, passVars, rcVars, ssVars>>

\* register_resource of an existing file that is not registered; the id is
\* "<resource_type>_<int(time.time())>_<basename>".
register_resource(resource_type, file_path) ==
    /\ \A r \in resources : r.file_path # file_path
    /\ resources' = resources \cup
           {[resource_id |-> <<resource_type, Sec(now), file_path>>,
             resource_type |-> resource_type, file_path |-> file_path,
             size_bytes |-> size_bytes_of[file_path],
             last_accessed |-> now, access_count |-> 0]}
    /\ last_evict' = NoSweep
    /\ UNCHANGED <<now, dbVars, localVars, passVars, rcVars, ssVars,
                   last_clean>>

\* access_resource of a registered resource.
access_resource(resource_id) ==
    /\ \E r \in resources :
          /\ r.resource_id = resource_id
          /\ r.access_count < MaxAccess
          /\ resources' = (resources \ {r}) \cup
                 {[r EXCEPT !.last_accessed = now, !.access_count = @ + 1]}
    /\ last_evict' = NoSweep
    /\ UNCHANGED <<now, dbVars, localVars, passVars, rcVars, ssVars,
                   last_clean>>

\* The saves and passes of a device next to its resource manager thread.
NextReclaim ==
    \/ SavePatient
    \/ SaveAssessment
    \/ \E t \in Callers : PassStep(t)
    \/ \E over_limit \in BOOLEAN : ManageStorage(over_limit)
    \/ NetChange
    \/ DbReconnect
    \/ ClockTick

SpecReclaim == Init /\ [][NextReclaim]_vars

\* Resources registered and accessed next to the resource manager thread,
\* on a device whose database file is small.
NextResources ==
    \/ \E reg \in Registrations : register_resource(reg[1], reg[2])
    \/ \E r \in resources : access_resource(r.resource_id)
    \/ ManageStorage(FALSE)
    \/ ClockTick

SpecResources == Init /\ [][NextResources]_vars

\* OfflineManager.sync_data entered by two callers at once.
NextGate ==
    \/ SavePatient
    \/ SaveAssessment
    \/ \E t \in Threads : SyncTrigger(t)
    \/ \E t \in Threads : SetInProgress(t)
    \/ \E t \in Threads : CheckAndFetch(t)
    \/ \E t \in Threads : Return(t)
    \/ \E t \in Threads : SyncAttempt(t)
    \/ \E t \in Threads : SyncResolve(t)
    \/ \E t \in Threads : FinishPass(t)

SpecGate == Init /\ [][NextGate]_vars

\* Triggers of sync_data by two callers while connectivity comes and goes.
NextTrigger ==
    \/ SavePatient
    \/ \E t \in Threads : SyncTrigger(t)
    \/ \E t \in Threads : SetInProgress(t)
    \/ \E t \in Threads : CheckAndFetch(t)
    \/ \E t \in Threads : Return(t)
    \/ \E t \in Threads : SyncAttempt(t)
    \/ \E t \in Threads : SyncResolve(t)
    \/ \E t \in Threads : FinishPass(t)
    \/ NetChange
    \/ DbReconnect

SpecTrigger == Init /\ [][NextTrigger]_vars

\* ---------------------------------------------- _resolve_conflict, called
Timestamps ==
    {TsNone, TsBad} \cup {TsNaive(t) : t \in 0..MaxTs}
                    \cup {TsAware(t) : t \in 0..MaxTs}

\* Documents with every kind of updated_at, and one without the key.
TimestampedDocs ==
    {[patient_id |-> "P1", updated_at |-> ts] : ts \in Timestamps}
        \cup {[patient_id |-> "P1"]}

InitResolve ==
    /\ OmInit
    /\ SsInit
    /\ RmInit
    /\ rc_central \in TimestampedDocs \cup {PyNone}
    /\ rc_local \in TimestampedDocs
    /\ rc_result = "unset"

ResolveCall ==
    /\ rc_result = "unset"
    /\ rc_result' = IF resolve_conflict(rc_central, rc_local)
                    THEN "local" ELSE "remote"
    /\ UNCHANGED <<now, dbVars, localVars, passVars, rc_central, rc_local,
                   ssVars, rmVars>>

SpecResolve == InitResolve /\ [][ResolveCall]_vars

\* ------------------------------------------------------------- SyncService
omVars == <<is_connected, mongo_db, localVars, passVars, rmVars>>

\* save_offline_data: one INSERT OR REPLACE keyed by
\* "<data_type>_<int(time.time())>_<data.get('id', 'new')>", committed at
\* once; it waits for the write lock of a running pass.
SsSyncId(data_type, t, id) == <<data_type, Sec(t), id>>

save_offline_data(data_type, id) ==
    /\ now < MaxTime
    /\ ss_lock = "free"
    /\ now' = now + 1
    /\ LET sync_id == SsSyncId(data_type, now', id)
           row == [sync_id |-> sync_id, data_type |-> data_type,
                   data |-> [id |-> id, ver |-> now'], status |-> "pending",
                   created_at |-> now', modified_at |-> now']
       IN sync_data_table' =
              {r \in sync_data_table : r.sync_id # sync_id} \cup {row}
    /\ UNCHANGED <<net, omVars, rcVars, ss_pc, ss_rows, ss_tx, ss_lock,
                   ss_probe, ss_start, ss_sent, ss_retried,
                   ss_result>>

RECURSIVE OrderByCreated(_)
\* ORDER BY created_at ASC
OrderByCreated(rows) ==
    IF rows = {}
    THEN <<>>
    ELSE LET first == CHOOSE x \in rows :
                          \A y \in rows : x.created_at <= y.created_at
         IN <<first>> \o OrderByCreated(rows \ {first})

\* _sync_with_server: the simulated server call, which reports success.
sync_with_server(data_type, data) == [success |-> TRUE]

\* sync_result.get('permanent_failure', False)
PermanentFailure(sync_result) ==
    IF "permanent_failure" \in DOMAIN sync_result
    THEN sync_result.permanent_failure
    ELSE FALSE

\* force of the caller: the scheduler calls sync_data(), the admin route
\* sync_data(force=True).
Force(t) == t = "admin"

\* A pass whose SELECT takes every row that is not synced.
SsBeginUnsynced(t, force) ==
    /\ LET pending_rows ==
               OrderByCreated({r \in sync_data_table : r.status # "synced"})
       IN IF (~net /\ ~force) \/ pending_rows = <<>>
          THEN /\ ss_pc' = [ss_pc EXCEPT ![t] = "idle"]
               /\ UNCHANGED <<ss_rows, ss_start>>
          ELSE /\ ss_pc' = [ss_pc EXCEPT ![t] = "loop"]
               /\ ss_rows' = [ss_rows EXCEPT ![t] = pending_rows]
               /\ ss_start' = [ss_start EXCEPT ![t] = pending_rows]
    /\ ss_sent' = [ss_sent EXCEPT ![t] = <<>>]
    /\ ss_probe' = [ss_probe EXCEPT ![t] = net]
    /\ UNCHANGED <<now, net, omVars, rcVars, sync_data_table, ss_tx, ss_lock,
                   ss_retried, ss_result>>

\* sync_data, lines 173-199: the connectivity test, skipped when forced, and
\* the SELECT of the pending rows.
SsBegin(t, force) ==
    /\ LET pending_rows ==
               OrderByCreated({r \in sync_data_table : r.status = "pending"})
       IN IF (~net /\ ~force) \/ pending_rows = <<>>
          THEN /\ ss_pc' = [ss_pc EXCEPT ![t] = "idle"]
               /\ UNCHANGED <<ss_rows, ss_start>>
          ELSE /\ ss_pc' = [ss_pc EXCEPT ![t] = "loop"]
               /\ ss_rows' = [ss_rows EXCEPT ![t] = pending_rows]
               /\ ss_start' = [ss_start EXCEPT ![t] = pending_rows]
    /\ ss_sent' = [ss_sent EXCEPT ![t] = <<>>]
    /\ ss_probe' = [ss_probe EXCEPT ![t] = net]
    /\ UNCHANGED <<now, net, omVars, rcVars, sync_data_table, ss_tx, ss_lock,
                   ss_retried, ss_result>>

\* A call of sync_data by the scheduler or by the admin route.
SsStart(t) ==
    /\ ss_pc[t] = "idle"
    /\ SsBegin(t, Force(t))

\* A row step that marks the row failed after any failure.
SsRowWithEveryFailureFailed(t, sync_result) ==
    /\ ss_pc[t] = "loop"
    /\ ss_rows[t] # <<>>
    /\ ss_lock \in {"free", t}
    /\ LET row == Head(ss_rows[t])
       IN /\ ss_sent' = [ss_sent EXCEPT ![t] = Append(@, row)]
          /\ ss_tx' = [ss_tx EXCEPT ![t] =
                          @ \cup {[sync_id |-> row.sync_id,
                                   status |-> IF sync_result.success
                                              THEN "synced" ELSE "failed",
                                   modified_at |-> now]}]
    /\ ss_lock' = t
    /\ ss_rows' = [ss_rows EXCEPT ![t] = Tail(@)]
    /\ ss_result' = [ss_result EXCEPT ![t] = sync_result]
    /\ UNCHANGED <<now, net, omVars, rcVars, sync_data_table, ss_pc, ss_probe,
                   ss_start, ss_retried>>

\* A row step whose UPDATE is committed at once.
SsRowAutocommit(t, sync_result) ==
    /\ ss_pc[t] = "loop"
    /\ ss_rows[t] # <<>>
    /\ ss_lock \in {"free", t}
    /\ LET row == Head(ss_rows[t])
       IN /\ ss_sent' = [ss_sent EXCEPT ![t] = Append(@, row)]
          /\ sync_data_table' =
                 {IF r.sync_id = row.sync_id
                  THEN [r EXCEPT !.status = IF sync_result.success
                                            THEN "synced" ELSE "failed",
                                 !.modified_at = now]
                  ELSE r : r \in sync_data_table}
    /\ ss_rows' = [ss_rows EXCEPT ![t] = Tail(@)]
    /\ ss_result' = [ss_result EXCEPT ![t] = sync_result]
    /\ UNCHANGED <<now, net, omVars, rcVars, ss_tx, ss_lock, ss_pc, ss_probe,
                   ss_start, ss_retried>>

\* sync_data, lines 205-228: one row is sent and, by the result of the
\* server call, its UPDATE joins the transaction of the pass, which takes
\* the write lock; a failure that is not permanent writes nothing.
SsRowWith(t, sync_result) ==
    /\ ss_pc[t] = "loop"
    /\ ss_rows[t] # <<>>
    /\ (sync_result.success \/ PermanentFailure(sync_result))
           => ss_lock \in {"free", t}
    /\ LET row == Head(ss_rows[t])
       IN /\ ss_sent' = [ss_sent EXCEPT ![t] = Append(@, row)]
          /\ ss_tx' = [ss_tx EXCEPT ![t] =
                          IF sync_result.success
                          THEN @ \cup {[sync_id |-> row.sync_id,
                                        status |-> "synced",
                                        modified_at |-> now]}
                          ELSE IF PermanentFailure(sync_result)
                          THEN @ \cup {[sync_id |-> row.sync_id,
                                        status |-> "failed",
                                        modified_at |-> now]}
                          ELSE @]
          /\ ss_lock' = IF sync_result.success
                           \/ PermanentFailure(sync_result)
                        THEN t
                        ELSE ss_lock
    /\ ss_rows' = [ss_rows EXCEPT ![t] = Tail(@)]
    /\ ss_result' = [ss_result EXCEPT ![t] = sync_result]
    /\ UNCHANGED <<now, net, omVars, rcVars, sync_data_table, ss_pc, ss_probe,
                   ss_start, ss_retried>>

\* One row of a pass, sent to the simulated server.
SsRow(t) ==
    /\ ss_rows[t] # <<>>
    /\ SsRowWith(t, sync_with_server(Head(ss_rows[t]).data_type,
                                     Head(ss_rows[t]).data))

\* The UPDATE of a row waits for the lock another pass holds; after the
\* SQLite timeout it raises, sync_data returns a failure and the pass ends.
SsLockTimeout(t) ==
    /\ ss_pc[t] = "loop"
    /\ ss_rows[t] # <<>>
    /\ ss_lock \notin {"free", t}
    /\ ss_sent' = [ss_sent EXCEPT ![t] = Append(@, Head(ss_rows[t]))]
    /\ ss_pc' = [ss_pc EXCEPT ![t] = "idle"]
    /\ ss_rows' = [ss_rows EXCEPT ![t] = <<>>]
    /\ ss_tx' = [ss_tx EXCEPT ![t] = {}]
    /\ ss_result' = [ss_result EXCEPT ![t] = PyNone]
    /\ UNCHANGED <<now, net, omVars, rcVars, sync_data_table, ss_lock,
                   ss_probe, ss_start, ss_retried>>

\* _cleanup_old_data: synced rows not modified within the retention period.
cleanup_old_data(table, t) ==
    {r \in table :
        ~(r.status = "synced" /\ r.modified_at < t - MaxOfflineTicks)}

\* The UPDATEs of a transaction applied to the table.
Committed(table, tx) ==
    {IF \E u \in tx : u.sync_id = r.sync_id
     THEN LET u == CHOOSE x \in tx : x.sync_id = r.sync_id
          IN [r EXCEPT !.status = u.status, !.modified_at = u.modified_at]
     ELSE r : r \in table}

\* sync_data, lines 230-245: commit, the retention sweep, commit.
SsFinish(t) ==
    /\ ss_pc[t] = "loop"
    /\ ss_rows[t] = <<>>
    /\ ss_lock \in {"free", t}
    /\ sync_data_table' =
           cleanup_old_data(Committed(sync_data_table, ss_tx[t]), now)
    /\ ss_tx' = [ss_tx EXCEPT ![t] = {}]
    /\ ss_lock' = "free"
    /\ ss_pc' = [ss_pc EXCEPT ![t] = "idle"]
    /\ ss_result' = [ss_result EXCEPT ![t] = PyNone]
    /\ UNCHANGED <<now, net, omVars, rcVars, ss_rows, ss_probe, ss_start,
                   ss_sent, ss_retried>>

\* The results the return statements of _sync_with_server can build: the
\* success of the simulated call, and the two results of its except branch,
\* which a call to a real server reaches.
ServerResults ==
    {[success |-> TRUE],
     [success |-> FALSE, permanent_failure |-> FALSE],
     [success |-> FALSE, permanent_failure |-> TRUE]}

\* One row of a pass, sent to a server that can fail.
SsRowServer(t) == \E sync_result \in ServerResults : SsRowWith(t, sync_result)

\* A retry that never starts a pass.
SsRetryNoPass(t) ==
    /\ t = "admin"
    /\ ss_pc[t] = "idle"
    /\ ss_lock = "free"
    /\ LET failed_rows == {r \in sync_data_table : r.status = "failed"}
       IN /\ sync_data_table' =
                 {IF r \in failed_rows
                  THEN [r EXCEPT !.status = "pending", !.modified_at = now]
                  ELSE r : r \in sync_data_table}
          /\ ss_retried' = Cardinality(failed_rows)
    /\ UNCHANGED <<now, net, omVars, rcVars, ss_pc, ss_rows, ss_tx, ss_lock,
                   ss_probe, ss_start, ss_sent, ss_result>>

\* retry_failed_sync, lines 306-322: the UPDATE of the failed rows, its
\* rowcount and the commit; the admin route is its only caller.
SsRetry(t) ==
    /\ t = "admin"
    /\ ss_pc[t] = "idle"
    /\ ss_lock = "free"
    /\ LET failed_rows == {r \in sync_data_table : r.status = "failed"}
           retried_count == Cardinality(failed_rows)
       IN /\ sync_data_table' =
                 {IF r \in failed_rows
                  THEN [r EXCEPT !.status = "pending", !.modified_at = now]
                  ELSE r : r \in sync_data_table}
          /\ ss_retried' = retried_count
          /\ ss_pc' = [ss_pc EXCEPT ![t] =
                          IF retried_count > 0 THEN "retry_sync" ELSE "idle"]
    /\ UNCHANGED <<now, net, omVars, rcVars, ss_rows, ss_tx, ss_lock,
                   ss_probe, ss_start, ss_sent, ss_result>>

\* retry_failed_sync, line 322: the pass it triggers, self.sync_data().
SsRetrySync(t) ==
    /\ ss_pc[t] = "retry_sync"
    /\ SsBegin(t, FALSE)

SsSave == \E data_type \in {"patient", "health_assessment"} :
              save_offline_data(data_type, "new")

\* The clock moves on with no operation under way.
Tick ==
    /\ now < MaxTime
    /\ now' = now + 1
    /\ UNCHANGED <<net, omVars, rcVars, ssVars>>

NextSS ==
    \/ SsSave
    \/ \E t \in SsThreads : SsStart(t)
    \/ \E t \in SsThreads : SsRow(t)
    \/ \E t \in SsThreads : SsLockTimeout(t)
    \/ \E t \in SsThreads : SsFinish(t)
    \/ NetChange
    \/ Tick

SpecSS == Init /\ [][NextSS]_vars

\* No other caller is inside sync_data or retry_failed_sync.
SsAlone(t) == \A u \in SsThreads \ {t} : ss_pc[u] = "idle"

\* SyncService against a server whose calls can fail, with the admin
\* route's retry, one call at a time.
NextSSFail ==
    \/ save_offline_data("patient", "new")
    \/ \E t \in SsThreads : SsAlone(t) /\ SsStart(t)
    \/ \E t \in SsThreads : SsRowServer(t)
    \/ \E t \in SsThreads : SsFinish(t)
    \/ \E t \in SsThreads : SsAlone(t) /\ SsRetry(t)
    \/ \E t \in SsThreads : SsRetrySync(t)
    \/ NetChange
    \/ Tick

SpecSSFail == Init /\ [][NextSSFail]_vars

\* Both engines of a device next to the resource manager thread: the saves
\* and passes of OfflineManager with its record sweep, and the saves and
\* passes of SyncService against a server whose calls can fail, each pass
\* ending with the sweep of SyncService.  The engines share no table, and a
\* pass of one starts while the other runs none.
NoPassRunning ==
    /\ \A t \in Callers : pc[t] = "idle"
    /\ \A t \in SsThreads : ss_pc[t] = "idle"

NextRetention ==
    \/ \E pid \in PatientIds : save_patient_offline(pid, "ok")
    \/ \E aid \in AssessmentIds, pid \in PatientIds :
          save_assessment_offline(aid, pid, "ok")
    \/ \E t \in Callers : NoPassRunning /\ StartPass(t)
    \/ \E t \in Callers : SyncAttempt(t)
    \/ \E t \in Callers : SyncResolve(t)
    \/ \E t \in Callers : FinishPass(t)
    \/ \E over_limit \in BOOLEAN : ManageStorage(over_limit)
    \/ save_offline_data("patient", "new")
    \/ NoPassRunning /\ SsStart("sched")
    \/ SsRowServer("sched")
    \/ SsFinish("sched")
    \/ ClockTick

SpecRetention == Init /\ [][NextRetention]_vars

\* ------------------------------------------------------------------ claims
\* The documents of the central store for a record.
RemoteCopiesIn(db, record_type, record_id) ==
    IF record_type = "patient"
    THEN Matching(db.patients, "patient_id", record_id)
    ELSE Matching(db.health_assessments, "assessment_id", record_id)

SyncIds(queue) == {q.sync_id : q \in queue}

QueueRowsFor(record_type, record_id) ==
    {q \in sync_queue : q.record_type = record_type /\ q.record_id = record_id}

\* The step is the outcome part of _sync_record for cur[t].
ResolveStep(t) == pc[t] = "attempted" /\ pc'[t] = "loop"

\* The decision of the conflict resolver of section 4.4 on the central copy
\* of a record (if any) and a local snapshot; an assessment has no
\* updated_at, so the local snapshot is used.
ResolverPicksLocal(record_type, record_id, data) ==
    \A c \in RemoteCopiesIn(mongo_db, record_type, record_id) :
        resolve_conflict(c, data)

\* C1: no silent data loss - a pass deletes a queue entry (and marks its
\* record synced) only when the Remote Store then actually holds a document
\* for that record; a remote write that did not take place leaves the entry
\* queued.
C1_DeletedOnlyWhenRemoteHolds ==
    [][\A q \in sync_queue :
          q.sync_id \notin SyncIds(sync_queue')
              => RemoteCopiesIn(mongo_db', q.record_type, q.record_id) # {}]_vars

\* A save wrote the row of a record (with synced = 0) in this step.
PatientWritten(pid) ==
    \E r \in patients' : r.patient_id = pid /\ r.synced = 0 /\ r \notin patients
AssessmentWritten(aid) ==
    \E r \in health_assessments' :
        r.assessment_id = aid /\ r.synced = 0 /\ r \notin health_assessments
\* A new sync_queue entry for the record was written in this step.
EntryAdded(record_type, record_id) ==
    \E q \in sync_queue' :
        /\ q.record_type = record_type
        /\ q.record_id = record_id
        /\ q.sync_id \notin SyncIds(sync_queue)

\* C3: a save is atomic over the record and its queue entry - in every step
\* the record row is written (synced = 0) if and only if a new sync_queue
\* entry for that record is written.
C3_SaveAtomic ==
    [][/\ \A pid \in PatientIds :
              PatientWritten(pid) <=> EntryAdded("patient", pid)
       /\ \A aid \in AssessmentIds :
              AssessmentWritten(aid) <=> EntryAdded("health_assessment", aid)]_vars

\* C4: every local record that is pending (synced = 0) has at least one live
\* sync_queue entry with its record_type and record_id.
C4_PendingHasEntry ==
    /\ \A r \in patients :
           r.synced = 0 => QueueRowsFor("patient", r.patient_id) # {}
    /\ \A r \in health_assessments :
           r.synced = 0
               => QueueRowsFor("health_assessment", r.assessment_id) # {}

\* C5: the most recent snapshot is authoritative - the Remote Store's copy of
\* a record is never replaced by an older local snapshot of that record (ver
\* numbers the saves; ver 0 is another device's copy).
C5_NoOlderOverNewer ==
    [][\A d \in mongo_db.patients : \A e \in mongo_db'.patients :
          (d.patient_id = e.patient_id /\ d.ver >= 1 /\ e.ver >= 1)
              => e.ver >= d.ver]_vars

\* C7: write-through when local wins - after a successful attempt (the entry
\* is removed) on an entry for which the resolver picks local, the Remote
\* Store holds a document for that record id whose fields equal the snapshot
\* (updated_at, which the store stamps itself, is not compared).
C7_WriteThrough ==
    [][\A t \in Threads :
          (/\ ResolveStep(t)
           /\ cur[t].sync_id \notin SyncIds(sync_queue')
           /\ ResolverPicksLocal(cur[t].record_type, cur[t].record_id,
                                 cur[t].data))
              => \E d \in RemoteCopiesIn(mongo_db', cur[t].record_type,
                                         cur[t].record_id) :
                     \A k \in DOMAIN cur[t].data \ {"updated_at"} :
                         k \in DOMAIN d /\ d[k] = cur[t].data[k]]_vars

\* The central copy of the record is strictly newer than the snapshot: the
\* resolver picks remote, whichever way it decides a tie.
RemoteIsNewer(record_type, record_id, data) ==
    /\ ~ResolverPicksLocal(record_type, record_id, data)
    /\ \A c \in RemoteCopiesIn(mongo_db, record_type, record_id) :
           Get(c, "updated_at") # Get(data, "updated_at")

\* C8: when the resolver picks remote for an entry, the pass writes nothing
\* to the Remote Store, yet counts the entry as synced, marks the local record
\* synced and removes the queue entry.
C8_RemoteWinsNoWrite ==
    [][\A t \in Threads :
          (/\ ResolveStep(t)
           /\ RemoteIsNewer(cur[t].record_type, cur[t].record_id,
                            cur[t].data))
              => /\ mongo_db' = mongo_db
                 /\ cur[t].sync_id \notin SyncIds(sync_queue')
                 /\ counts'[t][1] = counts[t][1] + 1
                 /\ \A r \in patients' :
                        r.patient_id = cur[t].record_id => r.synced = 1]_vars

\* C2: single-flight - at most one synchronization pass is in its
\* draining/attempting phase at any time, whatever the interleaving of the
\* callers of sync_data.
C2_SingleFlight ==
    Cardinality({t \in Threads : pc[t] \in {"loop", "attempted"}}) <= 1

\* The instants of two timestamps can be compared: both parse, and both are
\* naive or both aware.
Parses(ts) == ts[1] \in {"naive", "aware"}

\* C6: last-writer-wins with ties to local - _resolve_conflict picks local if
\* and only if T1 >= T2, or the remote copy is absent, or either timestamp is
\* missing or unparseable (pairs of one naive and one aware timestamp, which
\* have no order, are left out).
C6_TiesToLocal ==
    LET T2 == Get(rc_central, "updated_at")
        T1 == Get(rc_local, "updated_at")
    IN (rc_result # "unset"
        /\ (rc_central # PyNone /\ Parses(T1) /\ Parses(T2) => T1[1] = T2[1]))
           => (rc_result = "local"
                   <=> \/ rc_central = PyNone
                       \/ ~Parses(T1)
                       \/ ~Parses(T2)
                       \/ T1[2] >= T2[2])

\* The order the dequeue contract states: priority descending, then
\* retry_count ascending, then created_at (insertion time) ascending.
ContractKey(q) == <<0 - q.priority, q.retry_count, q.created_at>>
LexLess(a, b) ==
    \/ a[1] < b[1]
    \/ a[1] = b[1] /\ a[2] < b[2]
    \/ a[1] = b[1] /\ a[2] = b[2] /\ a[3] < b[3]

\* C9: _get_sync_queue_records(limit) returns min(limit, queue length)
\* entries of the queue, in contract order, and every entry left out comes
\* after every entry returned.
C9_DequeueContract ==
    \A limit \in 0..MaxLimit :
        LET batch == get_sync_queue_records(sync_queue, limit)
            n == Len(batch)
            returned == {batch[i] : i \in 1..n}
        IN /\ n = IF Cardinality(sync_queue) < limit
                  THEN Cardinality(sync_queue) ELSE limit
           /\ returned \subseteq sync_queue
           /\ \A i, j \in 1..n :
                  i < j => LexLess(ContractKey(batch[i]), ContractKey(batch[j]))
           /\ \A x \in sync_queue \ returned : \A i \in 1..n :
                  LexLess(ContractKey(batch[i]), ContractKey(x))

\* C9 witness: a backlog longer than the batch limit holding entries of both
\* priorities and two entries of one priority with different retry counts.
C9_Witness ==
    /\ Cardinality(sync_queue) > BatchLimit
    /\ \E a, b, c \in sync_queue :
           /\ a.priority = b.priority
           /\ a.retry_count < b.retry_count
           /\ a.created_at > b.created_at
           /\ c.priority # a.priority

\* C10: in every pass, every health-assessment item pending at pass start is
\* attempted before any item of another type pending at pass start.
C10_AssessmentsFirst ==
    \A t \in SsThreads : \A i \in 1..Len(ss_sent[t]) :
        ss_sent[t][i].data_type # "health_assessment"
            => \A k \in 1..Len(ss_start[t]) :
                   ss_start[t][k].data_type = "health_assessment"
                       => \E j \in 1..(i - 1) : ss_sent[t][j] = ss_start[t][k]

C12_OfflineTriggerNoStatusChange ==
    [][\A t \in SsThreads :
          (ss_pc[t] = "loop" /\ ss_pc'[t] = "idle" /\ ~ss_probe[t])
              => \A r \in sync_data_table : \A n \in sync_data_table' :
                     n.sync_id = r.sync_id => n.status = r.status]_vars

\* The step records the attempt of the next batch entry of caller t.
AttemptStep(t) == pc[t] = "loop" /\ pc'[t] = "attempted"

C15_FailedAttemptKept ==
    [][\A t \in Threads :
          (ResolveStep(t) /\ ~net)
              => \E n \in sync_queue' :
                     /\ n.sync_id = cur[t].sync_id
                     /\ n.retry_count = cur[t].retry_count + 1
                     /\ n.error_message # "NULL"]_vars

\* C18: when connectivity to the Remote Store is lost after the pass's
\* connectivity check, an entry attempted afterwards is counted as failed,
\* stays in the queue, its record stays pending and nothing is marked
\* synced for it.
C18_LostMidPassIsTransient ==
    [][\A t \in Threads :
          (ResolveStep(t) /\ ~net)
              => /\ counts'[t] = <<counts[t][1], counts[t][2] + 1>>
                 /\ cur[t].sync_id \in SyncIds(sync_queue')
                 /\ patients' = patients
                 /\ health_assessments' = health_assessments]_vars

\* C20: in every reachable state the sync_queue holds at most one entry
\* for each (record_type, record_id); the table has no status column, so
\* every entry in it is pending.
C20_OnePendingEntryPerRecord ==
    \A q1, q2 \in sync_queue :
        (q1.record_type = q2.record_type /\ q1.record_id = q2.record_id)
            => q1 = q2

\* --------------------------------------------- SyncService failure classes
SeqRows(rows) == {rows[i] : i \in 1..Len(rows)}

\* sync_data passes its test and fetches a non-empty pending_rows.
SsPassStart(t) == ss_pc[t] # "loop" /\ ss_pc'[t] = "loop"

\* One row of the loop is sent and the loop goes on.
SsAttempt(t) ==
    /\ ss_pc[t] = "loop"
    /\ ss_pc'[t] = "loop"
    /\ Len(ss_sent'[t]) = Len(ss_sent[t]) + 1

\* The commit at the end of a pass.
SsCommit(t) == ss_pc[t] = "loop" /\ ss_rows[t] = <<>> /\ ss_pc'[t] = "idle"

\* The UPDATE of retry_failed_sync found failed rows.
SsRetryReset == ss_pc["admin"] = "idle" /\ ss_pc'["admin"] = "retry_sync"

\* retry_failed_sync returns.
SsRetryReturn == ss_retried' # ss_retried \/ SsRetryReset

FailedRows == {r \in sync_data_table : r.status = "failed"}

\* save_offline_data writes a row under the sync_id of r.
SsResaved(r) ==
    /\ now' # now
    /\ \E n \in sync_data_table' : n.sync_id = r.sync_id /\ n.created_at = now'

C21_BoundedBatch ==
    \A t \in SsThreads :
        /\ Len(ss_start[t]) <= BatchLimit
        /\ Len(ss_sent[t]) <= BatchLimit

\* Every entry is gone and every saved record is marked synced.
Drained ==
    /\ sync_queue = {}
    /\ \A r \in patients : r.synced = 1
    /\ \A r \in health_assessments : r.synced = 1

\* C22: under fair triggering of passes, once connectivity stays available
\* (the saves of a run are finitely many), the queue is eventually empty and
\* every saved record eventually marked synced, for good.
C22_EventualDrain ==
    <>[](net /\ is_connected) => <>[]Drained

\* A pass fetches its batch.
BatchFetched(t) == pc[t] = "idle" /\ pc'[t] = "loop"

\* C23: with one entry that fails on every attempt in the queue, once
\* connectivity stays available every other entry is eventually synced and
\* removed, whatever its priority against the failing one; and in every
\* batch, of two entries of equal priority the one with more attempts comes
\* later.
C23_PoisonDoesNotBlock ==
    /\ <>[](net /\ is_connected)
           => <>[](\A q \in sync_queue : q.record_type = "call_record")
    /\ [][\A t \in Callers :
              BatchFetched(t)
                  => \A i, j \in 1..Len(records_to_sync'[t]) :
                         (/\ i < j
                          /\ records_to_sync'[t][i].priority =
                                 records_to_sync'[t][j].priority)
                             => records_to_sync'[t][i].retry_count <=
                                    records_to_sync'[t][j].retry_count]_vars

\* A fresh patient entry is attempted while the entry that has already
\* failed twice, of the same priority, waits behind it in the batch.
C23_Witness ==
    \E t \in Callers :
        /\ pc[t] = "attempted"
        /\ cur[t].record_type = "patient"
        /\ records_to_sync[t] # <<>>
        /\ Head(records_to_sync[t]).record_type = "call_record"
        /\ Head(records_to_sync[t]).priority = cur[t].priority
        /\ Head(records_to_sync[t]).retry_count >= 2

\* The local store after the two saves of the scenario, P1 at the first
\* clock tick and A1 for P1 at the second, with no pass run yet and nothing
\* in the Remote Store.
ScenarioRecords ==
    /\ now = 2
    /\ \E p \in patients : patients = {p} /\ p.patient_id = "P1"
                           /\ p.created_at = 1
    /\ \E a \in health_assessments :
           /\ health_assessments = {a}
           /\ a.assessment_id = "A1"
           /\ a.patient_id = "P1"
           /\ a.created_at = 2

ScenarioSaved ==
    /\ ScenarioRecords
    /\ \A p \in patients : p.synced = 0
    /\ \A a \in health_assessments : a.synced = 0
    /\ \A t \in Threads : pc[t] = "idle"
    /\ mongo_db = [patients |-> {}, health_assessments |-> {}]

\* The pass of the scenario resolves the entry of the record while the
\* central store is connected and holds no copy of it.
ScenarioResolve(t, record_type, record_id) ==
    /\ ScenarioRecords
    /\ ResolveStep(t)
    /\ net
    /\ is_connected
    /\ cur[t].record_type = record_type
    /\ cur[t].record_id = record_id
    /\ RemoteCopiesIn(mongo_db, record_type, record_id) = {}

\* C24: from empty stores, saving P1 and then A1 for P1 leaves exactly two
\* queue entries with A1 ranked first; the pass that follows with
\* connectivity inserts both documents into the Remote Store, removes both
\* entries and marks both records synced.
C24_EndToEnd ==
    /\ [](ScenarioSaved
             => /\ Cardinality(sync_queue) = 2
                /\ LET batch == get_sync_queue_records(sync_queue, 2)
                   IN /\ Len(batch) = 2
                      /\ batch[1].record_id = "A1"
                      /\ batch[2].record_id = "P1")
    /\ [][\A t \in Threads :
              /\ ScenarioResolve(t, "health_assessment", "A1")
                     => /\ RemoteCopiesIn(mongo_db', "health_assessment",
                                          "A1") # {}
                        /\ QueueRowsFor("health_assessment", "A1")' = {}
                        /\ \A a \in health_assessments' : a.synced = 1
              /\ ScenarioResolve(t, "patient", "P1")
                     => /\ RemoteCopiesIn(mongo_db', "patient", "P1") # {}
                        /\ QueueRowsFor("patient", "P1")' = {}
                        /\ \A p \in patients' : p.synced = 1]_vars

\* The sync_ids a caller can pass: those of the queue and one of no entry.
SyncIdArgs == SyncIds(sync_queue) \cup {<<"patient", "P1", -1>>}

\* C25: the success resolution of a sync_id applied twice gives the queue
\* it gives applied once (the second DELETE matches no row and raises
\* nothing), and it removes the entries of that sync_id only, leaving every
\* other entry as it was.
C25_ResolveSuccessIdempotent ==
    \A sync_id \in SyncIdArgs :
        LET once == update_sync_record_status(sync_queue, sync_id, TRUE,
                                              "NULL")
            twice == update_sync_record_status(once, sync_id, TRUE, "NULL")
        IN /\ twice = once
           /\ once = {q \in sync_queue : q.sync_id # sync_id}

\* A queue with two entries of one record under different sync_ids.
C25_Witness ==
    \E q1, q2 \in sync_queue :
        /\ q1.sync_id # q2.sync_id
        /\ q1.record_type = q2.record_type
        /\ q1.record_id = q2.record_id

\* An assessment of patient pid created at or after the cutoff.
RecentAssessment(pid, cutoff) ==
    \E a \in health_assessments :
        a.patient_id = pid /\ a.created_at >= cutoff

\* C26: a record sweep removes every synced assessment created before the
\* retention cutoff and every synced patient last written before the cutoff
\* that has no assessment created at or after it, and it keeps every patient
\* that has an assessment created at or after the cutoff, however old the
\* patient row is.
C26_RetentionSweep ==
    [][ManageStorage(TRUE) =>
          LET cutoff == now - MaxOfflineTicks
          IN /\ \A a \in health_assessments :
                   (a.synced = 1 /\ a.created_at < cutoff)
                       => a \notin health_assessments'
             /\ \A r \in patients :
                   (/\ r.synced = 1
                    /\ r.updated_at < cutoff
                    /\ ~RecentAssessment(r.patient_id, cutoff))
                       => r \notin patients'
             /\ \A r \in patients :
                   RecentAssessment(r.patient_id, cutoff) => r \in patients'
      ]_vars

\* A sweep has run, and a synced patient row older than its cutoff is still
\* there next to an assessment of the patient that is not older.
C26_Witness ==
    /\ last_clean.cutoff >= 0
    /\ \E r \in patients :
          /\ r.synced = 1
          /\ r.updated_at < last_clean.cutoff
          /\ RecentAssessment(r.patient_id, last_clean.cutoff)

\* C27: a retention sweep of either engine deletes no record and no row
\* whose status is pending or failed at the time of the sweep, and leaves
\* every sync_queue entry as it is, whatever saves and pass steps came
\* before it.
C27_ReclaimerOnlySynced ==
    [][/\ (\E over_limit \in BOOLEAN : ManageStorage(over_limit)) =>
             /\ \A r \in patients : r.synced = 0 => r \in patients'
             /\ \A a \in health_assessments :
                   a.synced = 0 => a \in health_assessments'
             /\ sync_queue' = sync_queue
       /\ \A t \in SsThreads :
             SsFinish(t) =>
                /\ \A r \in Committed(sync_data_table, ss_tx[t]) :
                      r.status \in {"pending", "failed"}
                          => r \in sync_data_table'
                /\ sync_queue' = sync_queue
      ]_vars

\* A record sweep has removed a synced record while another record is
\* pending with its entry in the queue.
C27_Witness ==
    /\ last_clean.removed # {}
    /\ \E q \in sync_queue :
          \/ \E r \in patients :
                r.patient_id = q.record_id /\ r.synced = 0
          \/ \E a \in health_assessments :
                a.assessment_id = q.record_id /\ a.synced = 0

\* C28: no step removes a registered resource whose resource_type is
\* 'essential' or 'system'; whatever sweeps run and whatever the storage
\* level is, such a resource stays in the resources table.
C28_EssentialNeverEvicted ==
    [][\A r \in resources :
          r.resource_type \in {"essential", "system"}
              => \E kept \in resources' : kept.resource_id = r.resource_id
      ]_vars

\* A sweep has evicted a resource and passed over an essential and a system
\* resource that were both accessed earlier than the evicted one.
C28_Witness ==
    /\ last_evict.evicted # <<>>
    /\ \E e, y \in resources :
          /\ e.resource_type = "essential"
          /\ y.resource_type = "system"
          /\ e.last_accessed < last_evict.evicted[1].last_accessed
          /\ y.last_accessed < last_evict.evicted[1].last_accessed

\* A step of the resource manager: it leaves the result of a sweep, and the
\* clock stands still.
ResourceSweep == last_evict' # NoSweep /\ now' = now

\* C29: a resource sweep evicts nothing when the registered resources take
\* 80% of the cap or less; when they take more, the resources left after the
\* sweep take 60% of the cap or less, unless every resource left is
\* essential or system or is one whose file could not be removed.
C29_EvictionHysteresis ==
    [][ResourceSweep =>
          LET total == TotalSize(resources)
          IN /\ total * 100 <= MaxStorageSize * TriggerPercent
                   => resources' = resources
             /\ total * 100 > MaxStorageSize * TriggerPercent
                   => \/ TotalSize(resources') * 100
                             <= MaxStorageSize * TargetPercent
                      \/ \A r \in resources' :
                            \/ r.resource_type \in {"essential", "system"}
                            \/ r \in last_evict'.failed
      ]_vars

\* A sweep that started above 80% of the cap has evicted two resources and
\* left the others at 60% of the cap or less.
C29_Witness ==
    /\ last_evict.total * 100 > MaxStorageSize * TriggerPercent
    /\ Len(last_evict.evicted) = 2
    /\ resources # {}
    /\ TotalSize(resources) * 100 <= MaxStorageSize * TargetPercent

\* a comes before b in (last_accessed ascending, access_count ascending).
Earlier(a, b) ==
    \/ a.last_accessed < b.last_accessed
    \/ a.last_accessed = b.last_accessed /\ a.access_count < b.access_count

\* C30: a sweep evicts in (last_accessed ascending, access_count ascending)
\* order: the resources it evicts come out in that order, none of them sorts
\* after a resource that is left, is not essential or system and whose file
\* could be removed, and the eviction ends with the first resource that
\* brings the removed size up to the amount above the 60% target.
C30_EvictionOrder ==
    [][ResourceSweep =>
          LET evicted == last_evict'.evicted
              before_last ==
                  {evicted[i] : i \in 1..(Len(evicted) - 1)}
              needed == TotalSize(resources) * 100
                            - MaxStorageSize * TargetPercent
          IN /\ resources' =
                    resources \ {evicted[i] : i \in DOMAIN evicted}
             /\ \A i, j \in DOMAIN evicted :
                   i < j => ~Earlier(evicted[j], evicted[i])
             /\ \A i \in DOMAIN evicted : \A r \in resources' :
                   (/\ r.resource_type \notin {"essential", "system"}
                    /\ r \notin last_evict'.failed)
                       => ~Earlier(r, evicted[i])
             /\ evicted # <<>> => TotalSize(before_last) * 100 < needed
      ]_vars

\* A sweep has evicted a resource and left a removable audio resource that
\* was last accessed at the same time but more often.
C30_Witness ==
    \E i \in DOMAIN last_evict.evicted : \E r \in resources :
        /\ r.resource_type = "audio"
        /\ r \notin last_evict.failed
        /\ r.last_accessed = last_evict.evicted[i].last_accessed
        /\ r.access_count > last_evict.evicted[i].access_count

\* The entries of the batch of caller t: those counted, the one under way and
\* those still to come.
Tally(t) ==
    counts[t][1] + counts[t][2] + Len(records_to_sync[t])
        + (IF pc[t] = "attempted" THEN 1 ELSE 0)

\* C31: inside a pass every entry of the batch is taken in turn and counted
\* once, whether its attempt succeeds or fails: an entry leaves the batch
\* only by being attempted, a counted failure leaves the rest of the batch
\* in place, and the pass returns only when the batch is used up, so that
\* synced plus failed is the number of entries dequeued.
C31_EveryEntryCountedOnce ==
    [][\A t \in Callers :
          /\ (pc[t] = "idle" /\ pc'[t] # "idle")
                => Tally(t)' = Len(records_to_sync'[t])
          /\ (pc[t] # "idle" /\ pc'[t] # "idle") => Tally(t)' = Tally(t)
          /\ (pc[t] # "idle" /\ records_to_sync'[t] # records_to_sync[t])
                => /\ records_to_sync'[t] = Tail(records_to_sync[t])
                   /\ cur'[t] = Head(records_to_sync[t])
          /\ (pc[t] # "idle" /\ pc'[t] = "idle")
                => pc[t] = "loop" /\ records_to_sync[t] = <<>>
      ]_vars

\* An entry is under way after the attempt of an earlier entry of the same
\* batch was counted as failed.
C31_Witness ==
    \E t \in Callers :
        /\ pc[t] = "attempted"
        /\ counts[t][2] >= 1
        /\ cur[t].record_type = "patient"

\* Caller t leaves sync_data through its except clause with rows of the
\* batch left.
SsAbort(t) ==
    ss_pc[t] = "loop" /\ ss_pc'[t] = "idle" /\ ss_rows[t] # <<>>

\* Caller t has dealt with one more row of its batch.
SsRowStep(t) ==
    ss_pc[t] = "loop" /\ ss_pc'[t] = "loop" /\ ss_rows'[t] # ss_rows[t]

SaveTouchesNothingRemote == mongo_db' = mongo_db /\ net' = net /\ is_connected' = is_connected

\* C33: the local write path comes first.  In every state, whatever the
\* connectivity and wherever a pass stands, save_patient_offline,
\* save_assessment_offline and save_offline_data can be carried out; a save
\* performs no Remote Store operation; and a save that went through leaves the
\* saved record pending (synced = 0, status 'pending'), also when the record
\* was synced before.
C33_LocalFirstWrite ==
    [][/\ now < MaxTime =>
             /\ \A pid \in PatientIds : ENABLED save_patient_offline(pid, "ok")
             /\ \A aid \in AssessmentIds, pid \in PatientIds :
                   ENABLED save_assessment_offline(aid, pid, "ok")
             /\ ENABLED save_offline_data("patient", "new")
       /\ \A pid \in PatientIds, o \in SaveOutcomes :
             save_patient_offline(pid, o) =>
                 /\ SaveTouchesNothingRemote
                 /\ o \in {"ok", "enqueue_fails"} =>
                        \E r \in patients' : r.patient_id = pid /\ r.synced = 0
       /\ \A aid \in AssessmentIds, pid \in PatientIds, o \in SaveOutcomes :
             save_assessment_offline(aid, pid, o) =>
                 /\ SaveTouchesNothingRemote
                 /\ o \in {"ok", "enqueue_fails"} =>
                        \E r \in health_assessments' :
                            r.assessment_id = aid /\ r.synced = 0
       /\ save_offline_data("patient", "new") =>
             /\ SaveTouchesNothingRemote
             /\ \E r \in sync_data_table' :
                   /\ r.sync_id = SsSyncId("patient", now', "new")
                   /\ r.status = "pending"]_vars


\* The fields of a queue entry that are fixed when it is enqueued.
Snapshot(q) ==
    [sync_id |-> q.sync_id, record_type |-> q.record_type,
     record_id |-> q.record_id, data |-> q.data, priority |-> q.priority,
     created_at |-> q.created_at]

\* The step is a save of OfflineManager.
OmSaveStep ==
    \/ \E pid \in PatientIds, o \in SaveOutcomes : save_patient_offline(pid, o)
    \/ \E aid \in AssessmentIds, pid \in PatientIds, o \in SaveOutcomes :
          save_assessment_offline(aid, pid, o)

\* C34: queue entries are immutable snapshots.  Across every step an entry
\* that stays in the queue keeps its record_type, record_id, data snapshot,
\* priority and created_at, so that only retry_count, last_attempt and
\* error_message can differ; a save leaves every existing entry exactly as it
\* was and adds at most one entry, which carries the snapshot of that save.
C34_EntriesImmutable ==
    [][/\ \A q \in sync_queue : \A q2 \in sync_queue' :
             q2.sync_id = q.sync_id => Snapshot(q2) = Snapshot(q)
       /\ OmSaveStep =>
             /\ sync_queue \subseteq sync_queue'
             /\ Cardinality(sync_queue' \ sync_queue) <= 1
             /\ \A q \in sync_queue' \ sync_queue :
                   /\ q.created_at = now' /\ q.data.ver = now'
                   /\ q.retry_count = 0]_vars

\* The queue holds two snapshots of one record: the older one has been
\* attempted, the later save has added its own entry next to it.
C34_Witness ==
    \E q1, q2 \in sync_queue :
        /\ q1.record_type = q2.record_type /\ q1.record_id = q2.record_id
        /\ q1.created_at < q2.created_at /\ q1.data # q2.data
        /\ q1.retry_count >= 1 /\ q2.retry_count = 0


\* C35: sync_id uniqueness.  Every enqueue, of OfflineManager and of
\* SyncService, uses a sync_id that no existing entry has, also for two saves
\* of the same record, or of two id-less items of one data type, within the
\* same clock second; so no insert meets an existing key and no existing row
\* is replaced.
C35_SyncIdUnique ==
    [][/\ \A pid \in PatientIds :
             save_patient_offline(pid, "ok") =>
                 SyncIdOf("patient", pid, now') \notin SyncIds(sync_queue)
       /\ \A aid \in AssessmentIds, pid \in PatientIds :
             save_assessment_offline(aid, pid, "ok") =>
                 SyncIdOf("health_assessment", aid, now')
                     \notin SyncIds(sync_queue)
       /\ save_offline_data("patient", "new") =>
             \A r \in sync_data_table :
                 r.sync_id # SsSyncId("patient", now', "new")]_vars


\* C36: a locally synced record has nothing left to send.  Whenever a patient
\* or an assessment is marked synced (synced = 1), the queue holds no entry
\* for it: neither the entry of a save made while a pass was attempting an
\* older entry, nor a newer entry next to an older one that succeeded.
C36_SyncedHasNoEntry ==
    /\ \A r \in patients :
          r.synced = 1 => QueueRowsFor("patient", r.patient_id) = {}
    /\ \A r \in health_assessments :
          r.synced = 1 =>
              QueueRowsFor("health_assessment", r.assessment_id) = {}


\* Caller t is inside the try block of sync_data.
Executing(t) == pc[t] \in {"check", "loop", "attempted"}

\* C37: the in-progress flag is always released.  The flag is up only while
\* some caller is executing a pass; every step by which a caller leaves its
\* pass, through the no-connectivity return or through normal completion,
\* leaves the flag down; and a trigger is rejected as 'Sync already in
\* progress' only while a pass is executing.
C37_FlagReleased ==
    [][/\ sync_in_progress => \E t \in Threads : Executing(t)
       /\ sync_in_progress' => \E t \in Threads : Executing(t)'
       /\ \A t \in Threads :
             /\ (Executing(t) /\ ~Executing(t)') => ~sync_in_progress'
             /\ (pc[t] = "idle" /\ pc'[t] = "rejected") =>
                    \E u \in Threads \ {t} : Executing(u)]_vars

\* One caller has left through the no-connectivity return after a pass has
\* completed normally, and the flag is down with no pass executing.
C37_Witness ==
    /\ \E t \in Threads : pc[t] = "no_connectivity"
    /\ last_sync_time # -1
    /\ ~sync_in_progress
    /\ \A t \in Threads : ~Executing(t)


\* The moves of a row's status that the lifecycle allows.
LifecycleMoves ==
    {<<"pending", "synced">>, <<"pending", "failed">>, <<"failed", "pending">>}

\* C38: the lifecycle of a sync_data row.  The status of a row (a sync_id)
\* only moves pending -> synced, pending -> failed or failed -> pending; a
\* row that is synced stays synced and is not sent to the server again; and
\* the UPDATE to synced joins the transaction of a pass only for a row whose
\* server call in that pass reported success.
C38_RowLifecycle ==
    [][/\ \A r \in sync_data_table : \A r2 \in sync_data_table' :
             (r2.sync_id = r.sync_id /\ r2.status # r.status)
                 => <<r.status, r2.status>> \in LifecycleMoves
       /\ \A t \in SsThreads :
             /\ (SsAttempt(t) \/ SsAbort(t) \/ SsPassStart(t)) =>
                    \A i \in 1..Len(ss_rows'[t]) :
                        \A r \in sync_data_table :
                            r.sync_id = ss_rows'[t][i].sync_id
                                => r.status # "synced"
             /\ \A u \in ss_tx'[t] \ ss_tx[t] :
                    u.status = "synced" =>
                        /\ ss_result'[t].success
                        /\ u.sync_id = Head(ss_rows[t]).sync_id]_vars

====
